---- MODULE Spec2Model ----
(***************************************************************************)
(* The HTML packager of scripts/build.py: package_html and the passes it   *)
(* runs (inline_stylesheets, inline_scripts, inline_images), with the      *)
(* fetcher and encoder they call.                                          *)
(*                                                                         *)
(* Text is a sequence of tokens.  A token is one tag (or one chunk of CSS  *)
(* or script text) with its attributes in source order; an attribute value *)
(* is a sequence of strings, and a string is a sequence of chunks, so that *)
(* str.startswith is a prefix test and str.replace a replacement of every  *)
(* occurrence.  [^>]* in the patterns confines a match to one tag, which   *)
(* is what makes the tag the unit of matching.                             *)
(***************************************************************************)
EXTENDS Integers, Sequences, FiniteSets, TLC

VARIABLES
    files,         \* the filesystem beside the document: path -> what is there
    responses,     \* the network: url -> how a fetch of it ends
    html_file,     \* the document on disk: [state, text]
    html_content,  \* package_html's local html_content
    pc,            \* package_html's position
    log,           \* what this call did, in order: fetches, reads, encodes, warnings, writes
    passes,        \* the stages this call entered, in order
    start_file,    \* the document on disk when this call began
    prev,          \* the previous call's outcome: [result, text]
    runs           \* calls made so far

vars == <<files, responses, html_file, html_content, pc, log, passes, start_file, prev, runs>>

\* ------------------------------------------------------------------ bounds

MaxDocLen == 2
MaxRuns == 2

\* ----------------------------------------------------------------- strings

StartsWith(s, p) == Len(s) >= Len(p) /\ SubSeq(s, 1, Len(p)) = p

Last(s) == s[Len(s)]

SetMax(S) == CHOOSE m \in S : \A k \in S : k <= m

DATA_PREFIX == <<"data:">>
HTTP_PREFIX == <<"http", "://">>
HTTPS_PREFIX == <<"http", "s", "://">>
HTTP_BARE == <<"http">>

\* --------------------------------------------------------- tokens of text

Attr(n, v) == [n |-> n, v |-> v]
Tok(k, attrs) == [k |-> k, attrs |-> attrs]

StyleOpen == Tok("<style>", <<>>)
StyleClose == Tok("</style>", <<>>)
ScriptOpen == Tok("<script>", <<>>)
ScriptClose == Tok("</script>", <<>>)

\* name= in a pattern matches wherever the attribute's name ends with it
\* (rel= also matches in data-rel=).
NameIs(a, name) == Last(a.n) = name

IsRelStylesheet(a) == NameIs(a, "rel") /\ a.v = << <<"stylesheet">> >>

\* a quoted value, ["\']([^"\']+)["\']
IsQuoted(a) == Len(a.v) = 1 /\ a.v[1] # <<>>

Indices(attrs, name) == {i \in 1..Len(attrs) : NameIs(attrs[i], name) /\ IsQuoted(attrs[i])}
RelIndices(attrs) == {i \in 1..Len(attrs) : IsRelStylesheet(attrs[i])}

\* str.replace(old, new) on the text of a tag or attribute: every occurrence.
ReplaceInValue(v, old, new) == [i \in 1..Len(v) |-> IF v[i] = old THEN new ELSE v[i]]
ReplaceInAttrs(attrs, old, new) ==
    [i \in 1..Len(attrs) |-> Attr(attrs[i].n, ReplaceInValue(attrs[i].v, old, new))]

\* ----------------------------------------------------------------- paths

HtmlDir == <<"/repo/">>
ImagesDir == <<"images/">>

Join(dir, ref) == dir \o ref
Parent(path) == SubSeq(path, 1, Len(path) - 1)

\* ------------------------------------------------- documents and resources

RemoteCss == <<"http", "s", "://", "cdn/", "theme.css">>
RemoteJs == <<"http", "://", "cdn/", "x.js">>
LocalCss == <<"css/", "a.css">>
LocalJs == <<"app.js">>
Logo == <<"logo.png">>
Bg == <<"bg.png">>
HttpNamed == <<"http", "-bg.png">>
Font == <<"font.woff">>
InlineData == <<"data:", "image/gif", ";base64,", "R0lG">>

Rel == Attr(<<"rel">>, << <<"stylesheet">> >>)
DataRel == Attr(<<"data-", "rel">>, << <<"stylesheet">> >>)
Href(v) == Attr(<<"href">>, <<v>>)
Src(v) == Attr(<<"src">>, <<v>>)
Alt(v) == Attr(<<"alt">>, <<v>>)
Style(urls) == Attr(<<"style">>, urls)
DataBg(v) == Attr(<<"data-background-image">>, <<v>>)
CssUrl(v) == Attr(<<"url">>, <<v>>)

\* the tags a document is made of
Elements ==
    { Tok("link", <<Rel, Href(LocalCss)>>),
      Tok("link", <<Href(LocalCss), Rel>>),
      Tok("link", <<Rel, Href(RemoteCss), DataRel>>),
      Tok("link", <<Rel, Href(InlineData)>>),
      Tok("script", <<Src(RemoteJs)>>),
      Tok("script", <<Src(LocalJs)>>),
      Tok("img", <<Src(Logo), Alt(Logo)>>),
      Tok("section", <<Style(<<Bg>>)>>),
      Tok("section", <<DataBg(Bg)>>),
      Tok("section", <<DataBg(HttpNamed)>>) }

Docs == UNION {[1..n -> Elements] : n \in 0..MaxDocLen}

\* what the resources hold
LocalCssText == << Tok("css", <<CssUrl(Font)>>) >>
RemoteCssText == << Tok("css", <<CssUrl(Font)>>) >>
RemoteCssWithLink == << Tok("css", <<>>), Tok("link", <<Rel, Href(LocalCss)>>) >>
JsText == << Tok("js", <<>>) >>
JsWithLink == << Tok("js", <<>>), Tok("link", <<Rel, Href(LocalCss)>>) >>

CssPath == <<"/repo/", "css/", "a.css">>
FontPath == <<"/repo/", "css/", "font.woff">>
LogoPath == <<"/repo/", "logo.png">>
BgPath == <<"/repo/", "bg.png">>
ImagesBgPath == <<"/repo/", "images/", "bg.png">>
ImagesHttpNamedPath == <<"/repo/", "images/", "http", "-bg.png">>
HtmlPath == <<"/repo/", "slides.html">>

\* a file of the filesystem: whether open() succeeds, whether it decodes as
\* UTF-8, its text and its bytes
FileAt(path) ==
    [readable |-> files[path] # "unreadable",
     utf8 |-> path = CssPath,
     text |-> IF path = CssPath /\ files[path] = "text" THEN LocalCssText ELSE <<>>,
     bytes |-> IF path = LogoPath THEN <<137, 80>>
               ELSE IF path = BgPath THEN <<71, 73>>
               ELSE IF path = ImagesBgPath THEN <<255, 216, 255>>
               ELSE IF path = ImagesHttpNamedPath THEN <<66, 77, 0, 1>>
               ELSE <<119>>]

\* Path.exists()
Exists(path) == path \in DOMAIN files /\ files[path] # "absent"

\* what the server answers for a url, when it answers
ResponseAt(url) ==
    IF responses[url] = "empty" THEN <<>>
    ELSE IF url = RemoteCss
         THEN (IF responses[url] = "withlink" THEN RemoteCssWithLink ELSE RemoteCssText)
         ELSE (IF responses[url] = "withlink" THEN JsWithLink ELSE JsText)

Answers(url) == url \in DOMAIN responses /\ responses[url] # "fail"

Mentions(text, ref) ==
    \E i \in 1..Len(text) : \E j \in 1..Len(text[i].attrs) :
        \E k \in 1..Len(text[i].attrs[j].v) : text[i].attrs[j].v[k] = ref

HasAttr(text, name) ==
    \E i \in 1..Len(text) : \E j \in 1..Len(text[i].attrs) : NameIs(text[i].attrs[j], name)

\* The outcomes of the resources a readable document can reach; a resource no
\* pass can reach has one outcome.
NetOutcomes(doc, st, url) ==
    IF st = "ok" /\ Mentions(doc, url) THEN {"fail", "empty", "text", "withlink"} ELSE {"fail"}

CssOutcomes(doc, st, n1, n2) ==
    IF st = "ok" /\ (Mentions(doc, LocalCss) \/ n1 = "withlink" \/ n2 = "withlink")
    THEN {"absent", "unreadable", "empty", "text"} ELSE {"absent"}

FontOutcomes(c1) == IF c1 = "text" THEN {"absent", "ok"} ELSE {"absent"}

LogoOutcomes(doc, st) ==
    IF st = "ok" /\ Mentions(doc, Logo) THEN {"absent", "unreadable", "ok"} ELSE {"absent"}

BgOutcomes(doc, st) ==
    IF st = "ok" /\ Mentions(doc, Bg) THEN {"absent", "ok"} ELSE {"absent"}

ImagesBgOutcomes(doc, st) ==
    IF st = "ok" /\ Mentions(doc, Bg) /\ HasAttr(doc, "data-background-image")
    THEN {"absent", "unreadable", "ok"} ELSE {"absent"}

ImagesHttpNamedOutcomes(doc, st) ==
    IF st = "ok" /\ Mentions(doc, HttpNamed) THEN {"absent", "ok"} ELSE {"absent"}

\* ------------------------------------------------------------------- log

Ev(op, path, ref) == [op |-> op, path |-> path, ref |-> ref]

\* what a replacement function returns: the text it puts, and what it did
Put(out, ev) == [out |-> out, ev |-> ev]
PutAttr(attr, ev) == [attr |-> attr, ev |-> ev]

\* ---------------------------------------------------------------- encoder

B64Alphabet ==
    << "A","B","C","D","E","F","G","H","I","J","K","L","M","N","O","P",
       "Q","R","S","T","U","V","W","X","Y","Z","a","b","c","d","e","f",
       "g","h","i","j","k","l","m","n","o","p","q","r","s","t","u","v",
       "w","x","y","z","0","1","2","3","4","5","6","7","8","9","+","/" >>

B64Char(n) == B64Alphabet[(n % 64) + 1]

B64Group(n, pad) ==
    IF pad = 2 THEN << B64Char(n \div 262144), B64Char(n \div 4096), "=", "=" >>
    ELSE IF pad = 1 THEN << B64Char(n \div 262144), B64Char(n \div 4096), B64Char(n \div 64), "=" >>
    ELSE << B64Char(n \div 262144), B64Char(n \div 4096), B64Char(n \div 64), B64Char(n) >>

RECURSIVE B64Encode(_)
B64Encode(b) ==
    IF Len(b) = 0 THEN <<>>
    ELSE IF Len(b) = 1 THEN B64Group(b[1] * 65536, 2)
    ELSE IF Len(b) = 2 THEN B64Group(b[1] * 65536 + b[2] * 256, 1)
    ELSE B64Group(b[1] * 65536 + b[2] * 256 + b[3], 0) \o B64Encode(SubSeq(b, 4, Len(b)))

\* mimetypes.guess_type by extension, application/octet-stream when unknown
MimeOfName(name) ==
    IF name \in {"logo.png", "bg.png", "-bg.png"} THEN "image/png"
    ELSE IF name = "font.woff" THEN "font/woff"
    ELSE IF name \in {"a.css", "theme.css"} THEN "text/css"
    ELSE "application/octet-stream"

get_mime_type(path) == MimeOfName(Last(path))

\* image_to_base64 of a file that is there: [ok, uri, ev]; None is ok = FALSE
EncodeFile(path, ref, f) ==
    IF f.readable
    THEN [ok |-> TRUE,
          uri |-> <<"data:", get_mime_type(path), ";base64,">> \o B64Encode(f.bytes),
          ev |-> << Ev("encode", path, ref) >>]
    ELSE [ok |-> FALSE, uri |-> <<>>,
          ev |-> << Ev("encode", path, ref), Ev("warn", path, ref) >>]

image_to_base64(path, ref) ==
    IF Exists(path) THEN EncodeFile(path, ref, FileAt(path))
    ELSE [ok |-> FALSE, uri |-> <<>>,
          ev |-> << Ev("encode", path, ref), Ev("warn", path, ref) >>]

\* ---------------------------------------------------------------- fetcher

\* read_url: [ok, text, ev]
read_url(url) ==
    IF Answers(url)
    THEN [ok |-> TRUE, text |-> ResponseAt(url), ev |-> << Ev("read_url", url, url) >>]
    ELSE [ok |-> FALSE, text |-> <<>>,
          ev |-> << Ev("read_url", url, url), Ev("warn", url, url) >>]

ReadFile(path, ref, f) ==
    IF f.readable /\ f.utf8
    THEN [ok |-> TRUE, text |-> f.text, ev |-> << Ev("read_file", path, ref) >>]
    ELSE [ok |-> FALSE, text |-> <<>>,
          ev |-> << Ev("read_file", path, ref), Ev("warn", path, ref) >>]

\* read_file_content: [ok, text, ev]
read_file_content(path, ref) ==
    IF Exists(path) THEN ReadFile(path, ref, FileAt(path))
    ELSE [ok |-> FALSE, text |-> <<>>,
          ev |-> << Ev("read_file", path, ref), Ev("warn", path, ref) >>]

\* Python's truth value of a read result: None and "" are both false.
Truthy(r) == r.ok /\ r.text # <<>>

\* ------------------------------------------------------------ re.sub

RECURSIVE Concat(_)
Concat(ss) == IF Len(ss) = 0 THEN <<>> ELSE ss[1] \o Concat(Tail(ss))

Outs(rs) == Concat([i \in 1..Len(rs) |-> rs[i].out])
Evs(rs) == Concat([i \in 1..Len(rs) |-> rs[i].ev])
Collect(rs) == Put(Outs(rs), Evs(rs))

\* re.sub(pattern, repl, text) with the pattern confined to one token: every
\* token is offered to Repl once, left to right, and replacements are not
\* rescanned.  Repl(tok) is [out, ev].
Sub(text, Repl(_)) == Collect([i \in 1..Len(text) |-> Repl(text[i])])

\* re.sub with the pattern confined to one attribute of a token.
\* ReplA(attr) is [attr, ev].
CollectAttrs(k, rs) == Put(<< Tok(k, [i \in 1..Len(rs) |-> rs[i].attr]) >>, Evs(rs))
SubAttrsOfTok(tok, ReplA(_)) ==
    CollectAttrs(tok.k, [i \in 1..Len(tok.attrs) |-> ReplA(tok.attrs[i])])
SubAttrs(text, ReplA(_)) ==
    Collect([i \in 1..Len(text) |-> SubAttrsOfTok(text[i], ReplA)])

\* one sub after another
Then(first, second) == Put(second.out, first.ev \o second.ev)

\* ------------------------------------------------------------ CSS rewriter

\* url(...) text occurs in CSS chunks and in style attributes
HasUrlText(a) == NameIs(a, "url") \/ NameIs(a, "style")

UrlEncoded(url, d) == [ref |-> IF d.ok THEN d.uri ELSE url, ev |-> d.ev]

UrlAt(url, file_path) ==
    IF Exists(file_path) THEN UrlEncoded(url, image_to_base64(file_path, url))
    ELSE [ref |-> url, ev |-> <<>>]

\* inline_css_urls.replace_url on one url(...): [ref, ev]
replace_url(url, base_path) ==
    IF StartsWith(url, DATA_PREFIX) \/ StartsWith(url, HTTP_PREFIX) \/ StartsWith(url, HTTPS_PREFIX)
    THEN [ref |-> url, ev |-> <<>>]
    ELSE UrlAt(url, Join(base_path, url))

CollectUrls(n, rs) == PutAttr(Attr(n, [i \in 1..Len(rs) |-> rs[i].ref]), Evs(rs))

replace_urls_in(a, base_path) ==
    IF HasUrlText(a)
    THEN CollectUrls(a.n, [i \in 1..Len(a.v) |-> replace_url(a.v[i], base_path)])
    ELSE PutAttr(a, <<>>)

inline_css_urls(css_content, base_path) ==
    LET ReplA(a) == replace_urls_in(a, base_path)
    IN  SubAttrs(css_content, ReplA)

\* --------------------------------------------------------- stylesheet pass

\* <link[^>]*rel=["\']stylesheet["\'][^>]*href=["\']([^"\']+)["\'][^>]*/?>
\* the index of the attribute group(1) is taken from, 0 when there is no match
MatchRelHref(tok) ==
    IF /\ tok.k = "link"
       /\ \E r \in RelIndices(tok.attrs), h \in Indices(tok.attrs, "href") : r < h
    THEN SetMax(Indices(tok.attrs, "href")) ELSE 0

\* <link[^>]*href=["\']([^"\']+)["\'][^>]*rel=["\']stylesheet["\'][^>]*/?>
HrefsBeforeRel(attrs) == {h \in Indices(attrs, "href") : \E r \in RelIndices(attrs) : h < r}
MatchHrefRel(tok) ==
    IF tok.k = "link" /\ HrefsBeforeRel(tok.attrs) # {}
    THEN SetMax(HrefsBeforeRel(tok.attrs)) ELSE 0

\* the CSS text replace_link obtains: [ok, text, ev]
WithUrlsInlined(got, css_path) ==
    IF Truthy(got)
    THEN [ok |-> TRUE, text |-> inline_css_urls(got.text, Parent(css_path)).out,
          ev |-> got.ev \o inline_css_urls(got.text, Parent(css_path)).ev]
    ELSE got

css_content_of(href) ==
    IF StartsWith(href, HTTP_PREFIX) \/ StartsWith(href, HTTPS_PREFIX)
    THEN read_url(href)
    ELSE WithUrlsInlined(read_file_content(Join(HtmlDir, href), href), Join(HtmlDir, href))

LinkOrStyle(tok, css_content) ==
    IF Truthy(css_content)
    THEN Put(<<StyleOpen>> \o css_content.text \o <<StyleClose>>, css_content.ev)
    ELSE Put(<<tok>>, css_content.ev)

\* inline_stylesheets.replace_link: [out, ev]
replace_link(tok, href) == LinkOrStyle(tok, css_content_of(href))

Group1(tok, i) == tok.attrs[i].v[1]

ReplRelHref(tok) ==
    IF MatchRelHref(tok) = 0 THEN Put(<<tok>>, <<>>)
    ELSE replace_link(tok, Group1(tok, MatchRelHref(tok)))

ReplHrefRel(tok) ==
    IF MatchHrefRel(tok) = 0 THEN Put(<<tok>>, <<>>)
    ELSE replace_link(tok, Group1(tok, MatchHrefRel(tok)))

SecondSweep(first) == Then(first, Sub(first.out, ReplHrefRel))

inline_stylesheets(text) == SecondSweep(Sub(text, ReplRelHref))

\* ------------------------------------------------------------- script pass

\* <script[^>]*src=["\']([^"\']+)["\'][^>]*></script>
MatchScript(tok) ==
    IF tok.k = "script" /\ Indices(tok.attrs, "src") # {}
    THEN SetMax(Indices(tok.attrs, "src")) ELSE 0

ScriptOrBlock(tok, js_content) ==
    IF Truthy(js_content)
    THEN Put(<<ScriptOpen>> \o js_content.text \o <<ScriptClose>>, js_content.ev)
    ELSE Put(<<tok>>, js_content.ev)

\* replace_script as it would be if it put the block before the tag it
\* matched instead of in its place
BlockBeforeTag(tok, r) == IF r.out = <<tok>> THEN r ELSE Put(r.out \o <<tok>>, r.ev)
replace_script_KeepsTag(tok, src) ==
    IF StartsWith(src, HTTP_PREFIX) \/ StartsWith(src, HTTPS_PREFIX)
    THEN BlockBeforeTag(tok, ScriptOrBlock(tok, read_url(src)))
    ELSE Put(<<tok>>, <<>>)

\* inline_scripts.replace_script: [out, ev]
replace_script(tok, src) ==
    IF StartsWith(src, HTTP_PREFIX) \/ StartsWith(src, HTTPS_PREFIX)
    THEN ScriptOrBlock(tok, read_url(src))
    ELSE Put(<<tok>>, <<>>)

ReplScript(tok) ==
    IF MatchScript(tok) = 0 THEN Put(<<tok>>, <<>>)
    ELSE replace_script(tok, Group1(tok, MatchScript(tok)))

inline_scripts(text) == Sub(text, ReplScript)

\* -------------------------------------------------------------- image pass

\* <img[^>]*src=["\']([^"\']+)["\'][^>]*/?>
MatchImg(tok) ==
    IF tok.k = "img" /\ Indices(tok.attrs, "src") # {}
    THEN SetMax(Indices(tok.attrs, "src")) ELSE 0

\* full_tag.replace(src, data_uri)
TagWith(full_tag, src, d) ==
    IF d.ok THEN Put(<< Tok(full_tag.k, ReplaceInAttrs(full_tag.attrs, src, d.uri)) >>, d.ev)
    ELSE Put(<<full_tag>>, d.ev)

ImgAt(full_tag, src, img_path) ==
    IF Exists(img_path) THEN TagWith(full_tag, src, image_to_base64(img_path, src))
    ELSE Put(<<full_tag>>, <<>>)

\* inline_images.replace_img: [out, ev]
replace_img(full_tag, src) ==
    IF StartsWith(src, DATA_PREFIX) \/ StartsWith(src, HTTP_PREFIX) \/ StartsWith(src, HTTPS_PREFIX)
    THEN Put(<<full_tag>>, <<>>)
    ELSE ImgAt(full_tag, src, Join(HtmlDir, src))

ReplImg(tok) ==
    IF MatchImg(tok) = 0 THEN Put(<<tok>>, <<>>)
    ELSE replace_img(tok, Group1(tok, MatchImg(tok)))

\* style=["\'][^"\']*background[^"\']*url\([^)]+\)[^"\']*["\']
MatchStyleBg(a) == NameIs(a, "style") /\ Len(a.v) > 0

\* style.replace(src, data_uri)
StyleWith(style, src, d) ==
    IF d.ok THEN PutAttr(Attr(style.n, ReplaceInValue(style.v, src, d.uri)), d.ev)
    ELSE PutAttr(style, d.ev)

StyleAt(style, src, img_path) ==
    IF Exists(img_path) THEN StyleWith(style, src, image_to_base64(img_path, src))
    ELSE PutAttr(style, <<>>)

\* inline_images.replace_bg_image: [attr, ev]; re.search takes the first url(...)
replace_bg_image(style) ==
    IF ~StartsWith(style.v[1], DATA_PREFIX) /\ ~StartsWith(style.v[1], HTTP_BARE)
    THEN StyleAt(style, style.v[1], Join(HtmlDir, style.v[1]))
    ELSE PutAttr(style, <<>>)

ReplBg(a) == IF MatchStyleBg(a) THEN replace_bg_image(a) ELSE PutAttr(a, <<>>)

\* data-background-image=["\']([^"\']+)["\']
MatchDataBg(a) == NameIs(a, "data-background-image") /\ IsQuoted(a)

DataBgWith(attr, d) ==
    IF d.ok THEN PutAttr(Attr(attr.n, <<d.uri>>), d.ev) ELSE PutAttr(attr, d.ev)

DataBgAt(attr, src, img_path) ==
    IF Exists(img_path) THEN DataBgWith(attr, image_to_base64(img_path, src))
    ELSE PutAttr(attr, <<>>)

\* html_dir / 'images' / src, or html_dir / src when that does not exist
DataBgPath(src) ==
    IF ~Exists(Join(Join(HtmlDir, ImagesDir), src)) THEN Join(HtmlDir, src)
    ELSE Join(Join(HtmlDir, ImagesDir), src)

\* inline_images.replace_data_bg: [attr, ev]
replace_data_bg(attr) ==
    IF ~StartsWith(attr.v[1], DATA_PREFIX) /\ ~StartsWith(attr.v[1], HTTP_BARE)
    THEN DataBgAt(attr, attr.v[1], DataBgPath(attr.v[1]))
    ELSE PutAttr(attr, <<>>)

ReplDataBg(a) == IF MatchDataBg(a) THEN replace_data_bg(a) ELSE PutAttr(a, <<>>)

StyleSweep(imgs) == Then(imgs, SubAttrs(imgs.out, ReplBg))
DataBgSweep(bgs) == Then(bgs, SubAttrs(bgs.out, ReplDataBg))

inline_images(text) == DataBgSweep(StyleSweep(Sub(text, ReplImg)))

\* ------------------------------------------------------------ package_html

Init ==
    \E doc \in Docs, st \in {"ok", "unreadable", "absent"} :
        \E n1 \in NetOutcomes(doc, st, RemoteCss), n2 \in NetOutcomes(doc, st, RemoteJs) :
            \E c1 \in CssOutcomes(doc, st, n1, n2), c3 \in LogoOutcomes(doc, st),
               c4 \in BgOutcomes(doc, st), c5 \in ImagesBgOutcomes(doc, st),
               c6 \in ImagesHttpNamedOutcomes(doc, st) :
                \E c2 \in FontOutcomes(c1) :
                    /\ st = "absent" => doc = <<>>
                    /\ files = (CssPath :> c1) @@ (FontPath :> c2) @@ (LogoPath :> c3) @@
                               (BgPath :> c4) @@ (ImagesBgPath :> c5) @@
                               (ImagesHttpNamedPath :> c6)
                    /\ responses = (RemoteCss :> n1) @@ (RemoteJs :> n2)
                    /\ html_file = [state |-> st, text |-> doc]
                    /\ html_content = <<>>
                    /\ pc = "idle"
                    /\ log = <<>>
                    /\ passes = <<>>
                    /\ start_file = [state |-> st, text |-> doc]
                    /\ prev = [result |-> "none", text |-> <<>>]
                    /\ runs = 0

\* package_html is called: for the first time, or again after a call that
\* returned True
Begin ==
    /\ pc \in {"idle", "succeeded"}
    /\ runs < MaxRuns
    /\ runs' = runs + 1
    /\ prev' = [result |-> pc, text |-> html_file.text]
    /\ pc' = "read"
    /\ log' = <<>>
    /\ passes' = <<>>
    /\ start_file' = html_file
    /\ html_content' = <<>>
    /\ UNCHANGED <<files, responses, html_file>>

\* Read as it would be without the early returns: an unreadable or missing
\* document is taken to be empty
Read_WithoutEarlyReturn ==
    /\ pc = "read"
    /\ passes' = Append(passes, "read")
    /\ log' = Append(log, Ev("doc_read", HtmlPath, HtmlPath))
    /\ html_content' = IF html_file.state = "ok" THEN html_file.text ELSE <<>>
    /\ pc' = "stylesheets"
    /\ UNCHANGED <<files, responses, html_file, start_file, prev, runs>>

\* html_path.exists() and read_file_content(html_path)
Read ==
    /\ pc = "read"
    /\ passes' = Append(passes, "read")
    /\ IF html_file.state = "absent"
       THEN /\ log' = Append(log, Ev("doc_missing", HtmlPath, HtmlPath))
            /\ pc' = "failed"
            /\ UNCHANGED html_content
       ELSE IF html_file.state = "unreadable"
       THEN /\ log' = log \o << Ev("doc_read", HtmlPath, HtmlPath), Ev("warn", HtmlPath, HtmlPath) >>
            /\ pc' = "failed"
            /\ UNCHANGED html_content
       ELSE /\ log' = Append(log, Ev("doc_read", HtmlPath, HtmlPath))
            /\ html_content' = html_file.text
            /\ pc' = "stylesheets"
    /\ UNCHANGED <<files, responses, html_file, start_file, prev, runs>>

Stylesheets ==
    /\ pc = "stylesheets"
    /\ LET r == inline_stylesheets(html_content)
       IN  /\ html_content' = r.out
           /\ log' = log \o r.ev
    /\ passes' = Append(passes, "stylesheets")
    /\ pc' = "scripts"
    /\ UNCHANGED <<files, responses, html_file, start_file, prev, runs>>

\* Scripts as it would be if a failed fetch were raised instead of warned about
Scripts_RaisesOnFailedFetch ==
    /\ pc = "scripts"
    /\ LET r == inline_scripts(html_content)
       IN  /\ html_content' = r.out
           /\ log' = log \o r.ev
           /\ pc' = IF \E k \in 1..Len(r.ev) : r.ev[k].op = "warn" THEN "failed" ELSE "images"
    /\ passes' = Append(passes, "scripts")
    /\ UNCHANGED <<files, responses, html_file, start_file, prev, runs>>

Scripts ==
    /\ pc = "scripts"
    /\ LET r == inline_scripts(html_content)
       IN  /\ html_content' = r.out
           /\ log' = log \o r.ev
    /\ passes' = Append(passes, "scripts")
    /\ pc' = "images"
    /\ UNCHANGED <<files, responses, html_file, start_file, prev, runs>>

Images ==
    /\ pc = "images"
    /\ LET r == inline_images(html_content)
       IN  /\ html_content' = r.out
           /\ log' = log \o r.ev
    /\ passes' = Append(passes, "images")
    /\ pc' = "write"
    /\ UNCHANGED <<files, responses, html_file, start_file, prev, runs>>

\* open(html_path, 'w') truncates, f.write writes, and either can raise: the
\* call returns True with the text written, or False with the file as it
\* was (open raised) or emptied (write raised).
Write ==
    /\ pc = "write"
    /\ passes' = Append(passes, "write")
    /\ \/ /\ html_file' = [state |-> "ok", text |-> html_content]
          /\ log' = Append(log, Ev("doc_write", HtmlPath, HtmlPath))
          /\ pc' = "succeeded"
       \/ /\ html_file' = html_file
          /\ log' = Append(log, Ev("doc_write_error", HtmlPath, HtmlPath))
          /\ pc' = "failed"
       \/ /\ html_file' = [state |-> "ok", text |-> <<>>]
          /\ log' = log \o << Ev("doc_write", HtmlPath, HtmlPath),
                              Ev("doc_write_error", HtmlPath, HtmlPath) >>
          /\ pc' = "failed"
    /\ UNCHANGED <<files, responses, html_content, start_file, prev, runs>>

Next == Begin \/ Read \/ Stylesheets \/ Scripts \/ Images \/ Write

Spec == Init /\ [][Next]_vars

\* ------------------------------------------------------------- properties

AllStages == <<"read", "stylesheets", "scripts", "images", "write">>

StylesheetsDone == Len(passes) >= 2

IsLocalRef(r) ==
    ~StartsWith(r, DATA_PREFIX) /\ ~StartsWith(r, HTTP_PREFIX) /\ ~StartsWith(r, HTTPS_PREFIX)

Warned(r) == \E k \in 1..Len(log) : log[k].op = "warn" /\ log[k].ref = r

\* the events of the log that fetch, read or encode the reference r
Touches(ops, r) == {k \in 1..Len(log) : log[k].op \in ops /\ log[k].ref = r}

\* the link tags of the text that a stylesheet pattern matches with href h
LinksTo(text, h) ==
    {i \in 1..Len(text) :
        \/ MatchRelHref(text[i]) # 0 /\ Group1(text[i], MatchRelHref(text[i])) = h
        \/ MatchHrefRel(text[i]) # 0 /\ Group1(text[i], MatchHrefRel(text[i])) = h}

ScriptsFrom(text, u) ==
    {i \in 1..Len(text) : MatchScript(text[i]) # 0 /\ Group1(text[i], MatchScript(text[i])) = u}

\* one step of package_html: the stages follow one another, and only Read and
\* Write can end the call in Failed
C1_Step ==
    /\ pc = "read" => pc' \in {"stylesheets", "failed"}
    /\ pc = "stylesheets" => pc' = "scripts"
    /\ pc = "scripts" => pc' = "images"
    /\ pc = "images" => pc' = "write"
    /\ pc = "write" => pc' \in {"succeeded", "failed"}
    /\ pc' = "failed" =>
         \/ pc = "read" /\ html_file.state # "ok" /\ passes' = <<"read">>
         \/ pc = "write" /\ log'[Len(log')].op = "doc_write_error" /\ passes' = AllStages
    /\ pc' = "succeeded" => pc = "write" /\ passes' = AllStages

C2_MissingLocalKeptAndWarned ==
    pc = "succeeded" =>
        \A i \in 1..Len(start_file.text) : \A j \in 1..Len(start_file.text[i].attrs) :
            LET tok == start_file.text[i]
                a == tok.attrs[j]
                r == a.v[1]
                referenced == \/ MatchRelHref(tok) = j
                              \/ MatchHrefRel(tok) = j
                              \/ MatchImg(tok) = j
                              \/ MatchStyleBg(a)
                              \/ MatchDataBg(a)
                missing == /\ ~Exists(Join(HtmlDir, r))
                           /\ MatchDataBg(a) => ~Exists(Join(Join(HtmlDir, ImagesDir), r))
            IN  (referenced /\ IsLocalRef(r) /\ missing) =>
                    Mentions(html_file.text, r) /\ Warned(r)

NoMatchInInlinedText ==
    \A text \in {ResponseAt(u) : u \in {w \in DOMAIN responses : Answers(w)}} \cup
                {FileAt(p).text : p \in {q \in DOMAIN files : Exists(q)}} :
        \A i \in 1..Len(text) :
            MatchRelHref(text[i]) = 0 /\ MatchHrefRel(text[i]) = 0 /\ MatchScript(text[i]) = 0

C4_DataReferencesUntouched ==
    /\ \A k \in 1..Len(log) :
           log[k].op \in {"read_url", "read_file", "encode"} =>
               ~StartsWith(log[k].ref, DATA_PREFIX)
    /\ (pc = "succeeded" /\ Mentions(start_file.text, InlineData)) =>
           Mentions(html_file.text, InlineData)

\* C5: a fetch is issued only for a reference that starts with http:// or
\* https://, only for a stylesheet link or a script, and at most once for each
\* occurrence of the reference in the document.
C5_FetchesOnlyRemoteAndOnce ==
    \A k \in 1..Len(log) :
        log[k].op = "read_url" =>
            /\ StartsWith(log[k].ref, HTTP_PREFIX) \/ StartsWith(log[k].ref, HTTPS_PREFIX)
            /\ Cardinality(Touches({"read_url"}, log[k].ref)) <=
                   Cardinality(LinksTo(start_file.text, log[k].ref)) +
                   Cardinality(ScriptsFrom(start_file.text, log[k].ref))

\* C6: a link with rel before href and one with href before rel, of the same
\* href, become the same style block or are both kept; and the stylesheet
\* pass obtains the stylesheet of each link of the document exactly once.
C6_BothOrdersAlikeAndOnce ==
    /\ \A h \in {LocalCss, RemoteCss, InlineData} :
           LET relHref == Tok("link", <<Rel, Href(h)>>)
               hrefRel == Tok("link", <<Href(h), Rel>>)
               a == inline_stylesheets(<<relHref>>).out
               b == inline_stylesheets(<<hrefRel>>).out
           IN  a = b \/ (a = <<relHref>> /\ b = <<hrefRel>>)
    /\ StylesheetsDone =>
           \A h \in {LocalCss, RemoteCss, InlineData} :
               Cardinality(Touches({"read_url", "read_file"}, h)) =
                   Cardinality(LinksTo(start_file.text, h))

\* C7: after the stylesheet pass a link is a style block when obtaining its
\* CSS text succeeded (also with empty text), and is the link it was exactly
\* when the fetch or read failed.
C7_StyleBlockExactlyOnSuccess ==
    (pc = "scripts" /\ Len(start_file.text) = 1 /\ LinksTo(start_file.text, LocalCss) = {1}) =>
        IF read_file_content(Join(HtmlDir, LocalCss), LocalCss).ok
        THEN /\ html_content[1] = StyleOpen
             /\ html_content[Len(html_content)] = StyleClose
        ELSE html_content = start_file.text

\* C8: after the image pass an img tag whose src is a local file that exists
\* and encodes has the data URI as the value of src and every other attribute
\* as it was; an img tag whose src is remote or data: is as it was.
C8_OnlySrcValueReplaced ==
    (pc = "write" /\ Len(start_file.text) = 1 /\ MatchImg(start_file.text[1]) # 0) =>
        LET tok == start_file.text[1]
            j == MatchImg(tok)
            src == Group1(tok, j)
            d == image_to_base64(Join(HtmlDir, src), src)
        IN  IF ~IsLocalRef(src) THEN html_content = <<tok>>
            ELSE d.ok => html_content =
                    << Tok(tok.k, [tok.attrs EXCEPT ![j] = Attr(tok.attrs[j].n, <<d.uri>>)]) >>

\* C9: after the image pass a data-background-image with a local value holds
\* the data URI of the file under images/ when a file exists there, else of
\* the file beside the document when one exists there, and is as it was when
\* neither exists.
C9_DataBgImagesFirst ==
    (/\ pc = "write"
     /\ Len(start_file.text) = 1
     /\ Len(start_file.text[1].attrs) = 1
     /\ MatchDataBg(start_file.text[1].attrs[1])
     /\ IsLocalRef(start_file.text[1].attrs[1].v[1])) =>
        LET tok == start_file.text[1]
            src == tok.attrs[1].v[1]
            in_images == Join(Join(HtmlDir, ImagesDir), src)
            beside == Join(HtmlDir, src)
            resolved == IF Exists(in_images) THEN in_images ELSE beside
            d == image_to_base64(resolved, src)
        IN  IF Exists(resolved)
            THEN d.ok => html_content = << Tok(tok.k, << Attr(tok.attrs[1].n, <<d.uri>>) >>) >>
            ELSE html_content = <<tok>>

\* C10: a call that ends in Failed because the document is missing or
\* unreadable entered no stage but Read, fetched, read and encoded nothing,
\* wrote nothing, and left the document as it was.
C10_ReadFailureTouchesNothing ==
    (pc = "failed" /\ html_file.state # "ok") =>
        /\ passes = <<"read">>
        /\ html_file = start_file
        /\ \A k \in 1..Len(log) :
               log[k].op \notin {"read_url", "read_file", "encode", "doc_write"}

\* C10's case: a call that failed on an unreadable document that has
\* references to rewrite.
C10_Witness ==
    /\ pc = "failed"
    /\ html_file.state = "unreadable"
    /\ Mentions(html_file.text, RemoteJs)

====
